---- MODULE Spec2Model ----
(***************************************************************************)
(* A model of deap/creator.py: the replacement registry class_replacers,   *)
(* the two replacement classes _array and _numpy_array, and the type       *)
(* factory create(name, base, **kargs) with the initializer initType it    *)
(* installs on every class it synthesizes.                                 *)
(*                                                                         *)
(* Python objects are modelled by identity where the code depends on it:   *)
(* synthesized classes are indices into `types`, mutable objects (the      *)
(* values producers return, the element buffers of instances) are indices  *)
(* into `heap`, instances are indices into `insts`.  The module namespace  *)
(* globals() is the function `globals`; the dictionary object created at   *)
(* line 31 is `class_replacers`, and the module namespace refers to it     *)
(* under the name "class_replacers".                                       *)
(***************************************************************************)
EXTENDS Integers, Sequences, FiniteSets, TLC

VARIABLES
    numpy,            \* whether `import numpy` succeeded (lines 43-47)
    class_replacers,  \* the dict object of line 31: base class -> replacement
    globals,          \* the module namespace of deap.creator
    types,            \* the classes synthesized by create, in creation order
    insts,            \* the instances constructed so far
    heap,             \* contents of the mutable objects allocated so far
    last,             \* the most recent call and its outcome
    pc,               \* SpecConc: each thread's position inside create
    loc               \* SpecConc: each thread's arguments and local variables

vars == <<numpy, class_replacers, globals, types, insts, heap, last, pc, loc>>

(***************************************************************************)
(* Bounds of the model.                                                    *)
(***************************************************************************)
MaxTypes == 2
MaxInst == 2
MaxSet == 1
MaxMut == 1
MaxAttrs == 2

(***************************************************************************)
(* Values.  Every Python value the model handles is a record of one shape. *)
(*   lit  : an immutable non-callable value, such as the typecode "d"      *)
(*   fn   : a callable producer, such as the class dict                    *)
(*   init : the closure initType of the synthesized class number r         *)
(*   ref  : a reference to the mutable object number r of the heap         *)
(*   cls  : a reference to the synthesized class number r                  *)
(*   reg  : a reference to the dictionary object class_replacers           *)
(*   none : no binding                                                     *)
(***************************************************************************)
Val(tag, s, r) == [tag |-> tag, s |-> s, r |-> r]
Lit(s) == Val("lit", s, 0)
Fn(s) == Val("fn", s, 0)
InitVal(t) == Val("init", "initType", t)
Ref(o) == Val("ref", "", o)
Cls(t) == Val("cls", "", t)
RegVal == Val("reg", "class_replacers", 0)
NoneVal == Val("none", "", 0)

\* The names a caller may pass as `name`: two ordinary identifiers and the
\* one module global that create itself reads (line 127).
ModNames == {"Foo", "Bar", "class_replacers"}

\* The keyword names a caller may pass: two ordinary attributes and the one
\* class-namespace key that create itself writes (line 147).
AttrNames == {"fitness", "typecode", "__init__"}

\* The order in which a dictionary of these names is iterated (arbitrary but
\* fixed for a given dictionary, as in CPython).
AttrOrder == <<"__init__", "fitness", "typecode">>

Statics == {Lit("d"), Lit("i")}
Producers == {Fn("dict")}
AttrValues == Statics \cup Producers

\* The keyword dictionaries **kargs a caller may pass, with names of N and
\* values of V.
KargsOver(N, V) ==
    UNION {[S -> V] : S \in {X \in SUBSET N : Cardinality(X) <= MaxAttrs}}

\* One attribute, static or produced.
FewKargs == [{"fitness"} -> {Lit("d"), Fn("dict")}]

\* Any attributes.
AllKargs == KargsOver(AttrNames, AttrValues)

\* The base classes a caller may pass; numpy.ndarray exists only when numpy
\* was imported.
UserBases(np) == {"list", "array.array"} \cup (IF np THEN {"numpy.ndarray"} ELSE {})

(***************************************************************************)
(* Module level: the registry and the replacement classes.                 *)
(***************************************************************************)
\* class_replacers after the module has been imported.
ImportedReplacers(np) ==
    [b \in {"array.array"} \cup (IF np THEN {"numpy.ndarray"} ELSE {}) |->
        IF b = "array.array" THEN "_array" ELSE "_numpy_array"]

\* The direct superclass of each class the module defines or is given.
Superclass(c) ==
    CASE c = "_array" -> "array.array"
      [] c = "_numpy_array" -> "numpy.ndarray"
      [] OTHER -> "object"

\* c is b or a (direct or indirect) subclass of b.
IsSubclass(c, b) ==
    c = b \/ Superclass(c) = b \/ Superclass(Superclass(c)) = b

\* The test of line 141: base.__init__ is not object.__init__.
\* list defines its own initializer; array.array and numpy.ndarray are set up
\* by __new__ and inherit object.__init__, and so do _array and _numpy_array.
HasOwnInit(base) == base = "list"

(***************************************************************************)
(* create, lines 118-148.                                                  *)
(***************************************************************************)
\* A test every value passes, such as hasattr(obj, "__class__").
HasCallAlways(v) == TRUE

\* hasattr(obj, "__call__"), line 121.
HasCall(v) == v.tag \in {"fn", "init"}

Restrict(f, S) == [n \in S |-> f[n]]

\* dict_inst and dict_cls, lines 118-124.
DictInst(kargs) == Restrict(kargs, {n \in DOMAIN kargs : HasCall(kargs[n])})
DictCls(kargs) == Restrict(kargs, {n \in DOMAIN kargs : ~HasCall(kargs[n])})

\* `base in class_replacers` (line 127) evaluates the module global
\* class_replacers: it raises TypeError when that name is bound to a class.
LookupRaises(g) == g["class_replacers"].tag # "reg"

\* Lines 127-128.
ReplacedBase(reg, base) == IF base \in DOMAIN reg THEN reg[base] ELSE base

\* type(name, (base,), {}): the static attributes are left out.
TypeNamespaceEmpty(dict_cls) == [n \in {} |-> NoneVal]

\* The namespace of the class made at line 146.
TypeNamespace(dict_cls) == dict_cls

\* The namespace after line 147 has assigned objtype.__init__.
InstallInit(ns, t) ==
    [n \in DOMAIN ns \cup {"__init__"} |-> IF n = "__init__" THEN InitVal(t) ELSE ns[n]]

\* The class as type(name, (base,), dict_cls) makes it at line 146, with the
\* variables the closure initType captures.  given, kargs: the arguments of
\* the call; base: the variable base after line 128; ns: the class namespace.
MadeType(name, base, kargs, reg) ==
    [name |-> name,
     given |-> base,
     kargs |-> kargs,
     base |-> ReplacedBase(reg, base),
     dict_inst |-> DictInst(kargs),
     dict_cls |-> DictCls(kargs),
     ns |-> TypeNamespace(DictCls(kargs))]

\* objtype.__init__ = initType, line 147, on class number t.
WithInit(ty, t) == [ty EXCEPT !.ns = InstallInit(@, t)]

\* The class synthesized by a call, as it stands after line 147.
NewType(t, name, base, kargs, reg) == WithInit(MadeType(name, base, kargs, reg), t)

\* dict_inst kept in one place for all classes instead of one per call: the
\* initializers of the classes made earlier see the newest dictionary.
TypesAfterCreateShared(tys, rec) ==
    Append([k \in 1..Len(tys) |-> [tys[k] EXCEPT !.dict_inst = rec.dict_inst]], rec)

\* The table of classes after a call has made a new one.
TypesAfterCreate(tys, rec) == Append(tys, rec)

\* globals()[name] = objtype, line 148.
Bind(g, name, t) == [g EXCEPT ![name] = Cls(t)]

\* A record of a call: the operation, the name it was given (create), the two
\* objects it concerned, and whether it raised.
Call(op, name, x, y, raised) ==
    [op |-> op, name |-> name, x |-> x, y |-> y, raised |-> raised]

\* A whole call create(name, base, **kargs) that returns normally.
CreateOk(name, base, kargs) ==
    /\ ~LookupRaises(globals)
    /\ LET t == Len(types) + 1
       IN /\ types' = TypesAfterCreate(types, NewType(t, name, base, kargs, class_replacers))
          /\ globals' = Bind(globals, name, t)
          /\ last' = Call("create", name, t, 0, FALSE)
    /\ UNCHANGED <<numpy, class_replacers, insts, heap, pc, loc>>

\* A whole call create(name, base, **kargs) that raises at line 127.
CreateRaises(name, base, kargs) ==
    /\ LookupRaises(globals)
    /\ last' = Call("create", name, 0, 0, TRUE)
    /\ UNCHANGED <<numpy, class_replacers, globals, types, insts, heap, pc, loc>>

Create(name, base, kargs) ==
    CreateOk(name, base, kargs) \/ CreateRaises(name, base, kargs)

(***************************************************************************)
(* Instances: construction, initType (lines 135-144), the replacement      *)
(* classes' __new__ and __array_finalize__ (lines 57-65, 75-77).           *)
(***************************************************************************)
\* Constructor arguments: none, or one positional sequence.
Args(given, seq) == [given |-> given, seq |-> seq]
NoArgs == Args(FALSE, <<>>)
SeqArgs == {<<1, 2>>}
ArgSet == {NoArgs} \cup {Args(TRUE, s) : s \in SeqArgs}

\* The names of S in iteration order.
RECURSIVE Ordered(_, _)
Ordered(S, k) ==
    IF k > Len(AttrOrder) THEN <<>>
    ELSE (IF AttrOrder[k] \in S THEN <<AttrOrder[k]>> ELSE <<>>) \o Ordered(S, k + 1)

Position(seq, n) == CHOOSE k \in 1..Len(seq) : seq[k] = n

\* The identity of the k-th object allocated on heap h.
Fresh(h, k) == Len(h) + k

\* obj() at line 140: the producer returns a new, empty object.
Produced(fn) == <<>>

\* An instance under construction: its class, its element buffer, its
\* __dict__, the runs of initType made on it, and the heap.
Self(t, buf, d, log, h) == [type |-> t, buf |-> buf, dict |-> d, log |-> log, heap |-> h]

EmptyDict == [n \in {} |-> NoneVal]

\* initType calling base.__init__ before the loop of lines 139-140.
InitTypeEventsBaseFirst(dict_inst) == <<"base.__init__">> \o Ordered(DOMAIN dict_inst, 1)

\* The events of one run of initType, in order: one setattr per entry of
\* dict_inst (lines 139-140), then the call of base.__init__ (lines 141-144).
InitTypeEvents(dict_inst) == Ordered(DOMAIN dict_inst, 1) \o <<"base.__init__">>

\* What base.__init__ receives, lines 141-144.
BaseInitArgs(base, args) == IF HasOwnInit(base) THEN args ELSE NoArgs

\* The effect of base.__init__(self, *passed) on the elements: list.__init__
\* refills the list from its argument, object.__init__ does nothing.
BaseInit(base, content, passed) == IF HasOwnInit(base) THEN passed.seq ELSE content

\* __dict__ after the loop of lines 139-140 on heap h.
InitTypeDict(d, dict_inst, h) ==
    LET names == Ordered(DOMAIN dict_inst, 1)
    IN [n \in DOMAIN d \cup DOMAIN dict_inst |->
           IF n \in DOMAIN dict_inst THEN Ref(Fresh(h, Position(names, n))) ELSE d[n]]

\* One call initType(self, *args) of the class ty, lines 135-144.
InitType(self, ty, args) ==
    LET names == Ordered(DOMAIN ty.dict_inst, 1)
        made == self.heap \o [k \in 1..Len(names) |-> Produced(ty.dict_inst[names[k]])]
        passed == BaseInitArgs(ty.base, args)
    IN Self(self.type, self.buf,
            InitTypeDict(self.dict, ty.dict_inst, self.heap),
            Append(self.log,
                   [args |-> args, ev |-> InitTypeEvents(ty.dict_inst), passed |-> passed]),
            [made EXCEPT ![self.buf] = BaseInit(ty.base, @, passed)])

\* cls.typecode at line 77 must be a type code: a static attribute of the class.
HasTypecode(ty) == "typecode" \in DOMAIN ty.ns /\ ty.ns["typecode"].tag = "lit"

\* Whether cls.__new__(cls, *args) raises.
NewRaises(ty, args) ==
    CASE ty.base = "_array" -> ~HasTypecode(ty)
      [] ty.base = "_numpy_array" -> ~args.given
      [] OTHER -> FALSE

\* The elements of the object cls.__new__(cls, *args) returns: lines 60 and 77
\* build them from the sequence, list.__new__ makes an empty list.
NewElems(base, args) == IF base \in {"_array", "_numpy_array"} THEN args.seq ELSE <<>>

\* An __array_finalize__ that does not call self.__init__().
FinalizeWithoutInit(self, ty) == self

\* __array_finalize__, lines 62-65: self.__init__() on every new array object;
\* the other bases have no such hook.
Finalize(self, ty) ==
    IF ty.base = "_numpy_array" THEN InitType(self, ty, NoArgs) ELSE self

\* The call cls(*args) of a synthesized class: __new__, then __init__.
Instantiate(t, ty, args, h) ==
    LET buf == Fresh(h, 1)
        made == Self(t, buf, EmptyDict, <<>>, Append(h, NewElems(ty.base, args)))
    IN InitType(Finalize(made, ty), ty, args)

\* An instance at rest.  src: the instance it is a deep copy of, 0 when it was
\* made by calling its class; own: the names the caller has assigned on it
\* (or on the instance it was copied from).
Inst(self, src, own) ==
    [type |-> self.type, buf |-> self.buf, dict |-> self.dict, log |-> self.log,
     src |-> src, own |-> own]

ConstructOk(t, args) ==
    /\ Len(insts) < MaxInst
    /\ ~NewRaises(types[t], args)
    /\ LET self == Instantiate(t, types[t], args, heap)
       IN /\ insts' = Append(insts, Inst(self, 0, {}))
          /\ heap' = self.heap
          /\ last' = Call("construct", "", t, Len(insts) + 1, FALSE)
    /\ UNCHANGED <<numpy, class_replacers, globals, types, pc, loc>>

ConstructRaises(t, args) ==
    /\ NewRaises(types[t], args)
    /\ last' = Call("construct", "", t, 0, TRUE)
    /\ UNCHANGED <<numpy, class_replacers, globals, types, insts, heap, pc, loc>>

\* cls(*args) through any reference to the class, bound in the module or kept
\* by the caller.
Construct(t, args) == ConstructOk(t, args) \/ ConstructRaises(t, args)

(***************************************************************************)
(* __deepcopy__ of the replacement classes, lines 49-55 and 79-87.         *)
(***************************************************************************)
\* copy_.__dict__.update(self.__dict__): a shallow copy of the attributes.
DeepCopyDictShallow(d, h) == d

\* copy.deepcopy(self.__dict__, memo): every mutable value is copied to a new
\* object, immutable values are kept.
DeepCopyDict(d, h) ==
    LET names == Ordered({n \in DOMAIN d : d[n].tag = "ref"}, 1)
    IN [n \in DOMAIN d |->
           IF d[n].tag = "ref" THEN Ref(Fresh(h, Position(names, n))) ELSE d[n]]

DeepCopyHeap(d, h) ==
    LET names == Ordered({n \in DOMAIN d : d[n].tag = "ref"}, 1)
    IN h \o [k \in 1..Len(names) |-> h[d[names[k]].r]]

\* copy_.__dict__.update(m)
Update(d, m) == [n \in DOMAIN d \cup DOMAIN m |-> IF n \in DOMAIN m THEN m[n] ELSE d[n]]

\* The object made by the first statement of __deepcopy__: cls.__new__(cls, self)
\* at line 84 runs no initializer; numpy.ndarray.__deepcopy__ at line 53 makes
\* a new array of the same class, on which __array_finalize__ runs.
CopyObject(src, ty, h) ==
    Finalize(Self(src.type, Fresh(h, 1), EmptyDict, <<>>, Append(h, h[src.buf])), ty)

\* The whole of __deepcopy__(self, memo).
DeepCopyOf(src, ty, h) ==
    LET copy_ == CopyObject(src, ty, h)
    IN Self(copy_.type, copy_.buf,
            Update(copy_.dict, DeepCopyDict(src.dict, copy_.heap)),
            copy_.log,
            DeepCopyHeap(src.dict, copy_.heap))

HasDeepCopy(base) == base \in {"_array", "_numpy_array"}

DeepCopy(i) ==
    /\ Len(insts) < MaxInst
    /\ HasDeepCopy(types[insts[i].type].base)
    /\ LET self == DeepCopyOf(insts[i], types[insts[i].type], heap)
       IN /\ insts' = Append(insts, Inst(self, i, insts[i].own))
          /\ heap' = self.heap
          /\ last' = Call("deepcopy", "", i, Len(insts) + 1, FALSE)
    /\ UNCHANGED <<numpy, class_replacers, globals, types, pc, loc>>

(***************************************************************************)
(* What callers do with instances.                                         *)
(***************************************************************************)
\* The contents of the object a caller attaches.
Attached == <<7>>

\* inst.n = [7]: the caller binds attribute n of instance i to a new object.
SetAttr(i, n) ==
    /\ n \notin insts[i].own
    /\ Cardinality({jm \in (1..Len(insts)) \X AttrNames : jm[2] \in insts[jm[1]].own}) < MaxSet
    /\ insts' = [insts EXCEPT ![i].dict = Update(@, [m \in {n} |-> Ref(Fresh(heap, 1))]),
                              ![i].own = @ \cup {n}]
    /\ heap' = Append(heap, Attached)
    /\ last' = Call("caller", "", 0, 0, FALSE)
    /\ UNCHANGED <<numpy, class_replacers, globals, types, pc, loc>>

\* The objects an instance holds: its elements and the values of its __dict__.
Held(inst) == {inst.buf} \cup {inst.dict[n].r : n \in {m \in DOMAIN inst.dict : inst.dict[m].tag = "ref"}}

Mutated == <<0>>

\* In-place mutation of an object held by instance i.
Mutate(i, o) ==
    /\ o \in Held(insts[i])
    /\ Cardinality({x \in 1..Len(heap) : heap[x] = Mutated}) < MaxMut
    /\ heap' = [heap EXCEPT ![o] = Mutated]
    /\ last' = Call("caller", "", 0, 0, FALSE)
    /\ UNCHANGED <<numpy, class_replacers, globals, types, insts, pc, loc>>

\* getattr(inst, n): the instance's __dict__, then the class namespace.
GetAttr(inst, n) ==
    IF n \in DOMAIN inst.dict THEN inst.dict[n]
    ELSE IF n \in DOMAIN types[inst.type].ns THEN types[inst.type].ns[n]
    ELSE NoneVal

(***************************************************************************)
(* create run by two threads, one statement at a time.                     *)
(***************************************************************************)
\* The module namespace after import: class_replacers names the registry, no
\* class has been synthesized.
InitGlobals == [n \in ModNames |-> IF n = "class_replacers" THEN RegVal ELSE NoneVal]

Threads == {1, 2}

\* create with lines 147 and 148 exchanged: the class is bound first.
SuccessorBindFirst(label) ==
    CASE label = "partition" -> "lookup"
      [] label = "lookup" -> "type"
      [] label = "type" -> "bind"
      [] label = "bind" -> "setinit"
      [] label = "setinit" -> "done"
      [] OTHER -> label

\* The statements of create in program order, by the label of the next one
\* to run: lines 118-124, 127-128, 146, 147, 148.
Successor(label) ==
    CASE label = "partition" -> "lookup"
      [] label = "lookup" -> "type"
      [] label = "type" -> "setinit"
      [] label = "setinit" -> "bind"
      [] label = "bind" -> "done"
      [] OTHER -> label

Finished(label) == label \in {"done", "raised"}

Frame(name, base, kargs, t) == [name |-> name, base |-> base, kargs |-> kargs, t |-> t]

\* Lines 118-124 touch only local variables.
T_Partition(th) ==
    /\ pc[th] = "partition"
    /\ pc' = [pc EXCEPT ![th] = Successor("partition")]
    /\ UNCHANGED <<numpy, class_replacers, globals, types, insts, heap, last, loc>>

\* Lines 127-128 read the module global class_replacers.
T_Lookup(th) ==
    /\ pc[th] = "lookup"
    /\ pc' = [pc EXCEPT ![th] = IF LookupRaises(globals) THEN "raised" ELSE Successor("lookup")]
    /\ UNCHANGED <<numpy, class_replacers, globals, types, insts, heap, last, loc>>

\* Line 146 makes the class.
T_Type(th) ==
    /\ pc[th] = "type"
    /\ types' = TypesAfterCreate(types,
                    MadeType(loc[th].name, loc[th].base, loc[th].kargs, class_replacers))
    /\ loc' = [loc EXCEPT ![th].t = Len(types) + 1]
    /\ pc' = [pc EXCEPT ![th] = Successor("type")]
    /\ UNCHANGED <<numpy, class_replacers, globals, insts, heap, last>>

\* Line 147 installs the initializer.
T_SetInit(th) ==
    /\ pc[th] = "setinit"
    /\ types' = [types EXCEPT ![loc[th].t] = WithInit(@, loc[th].t)]
    /\ pc' = [pc EXCEPT ![th] = Successor("setinit")]
    /\ UNCHANGED <<numpy, class_replacers, globals, insts, heap, last, loc>>

\* Line 148 binds the class in the module namespace.
T_Bind(th) ==
    /\ pc[th] = "bind"
    /\ globals' = Bind(globals, loc[th].name, loc[th].t)
    /\ pc' = [pc EXCEPT ![th] = Successor("bind")]
    /\ UNCHANGED <<numpy, class_replacers, types, insts, heap, last, loc>>

InitConc ==
    /\ numpy \in BOOLEAN
    /\ class_replacers = ImportedReplacers(numpy)
    /\ globals = InitGlobals
    /\ types = <<>>
    /\ insts = <<>>
    /\ heap = <<>>
    /\ last = Call("import", "", 0, 0, FALSE)
    /\ pc = [th \in Threads |-> "partition"]
    /\ loc \in [Threads -> {Frame(n, b, k, 0) :
                    n \in ModNames, b \in UserBases(numpy), k \in FewKargs}]

NextConc ==
    \/ \E th \in Threads : T_Partition(th)
    \/ \E th \in Threads : T_Lookup(th)
    \/ \E th \in Threads : T_Type(th)
    \/ \E th \in Threads : T_SetInit(th)
    \/ \E th \in Threads : T_Bind(th)

SpecConc == InitConc /\ [][NextConc]_vars

(***************************************************************************)
(* Specification.                                                          *)
(***************************************************************************)
Init ==
    /\ numpy \in BOOLEAN
    /\ class_replacers = ImportedReplacers(numpy)
    /\ globals = InitGlobals
    /\ types = <<>>
    /\ insts = <<>>
    /\ heap = <<>>
    /\ last = Call("import", "", 0, 0, FALSE)
    /\ pc = <<>>
    /\ loc = <<>>

\* The program synthesizes classes under any name and instantiates them,
\* through the module namespace or through references it kept.
Next ==
    \/ \E name \in ModNames, base \in UserBases(numpy), kargs \in FewKargs :
          Len(types) < MaxTypes /\ Create(name, base, kargs)
    \/ \E t \in 1..Len(types), args \in ArgSet : Construct(t, args)

Spec == Init /\ [][Next]_vars

\* The program synthesizes one class, with any keyword arguments,
\* instantiates it and mutates what its instances hold.
NextAttrs ==
    \/ \E base \in UserBases(numpy), kargs \in AllKargs :
          Len(types) < 1 /\ Create("Foo", base, kargs)
    \/ \E t \in 1..Len(types), args \in ArgSet : Construct(t, args)
    \/ \E i \in 1..Len(insts), o \in 1..Len(heap) : Mutate(i, o)

SpecAttrs == Init /\ [][NextAttrs]_vars

\* The program synthesizes one class, with any keyword arguments,
\* instantiates it, assigns attributes on the instances and deep-copies them.
NextCopy ==
    \/ \E base \in UserBases(numpy), kargs \in AllKargs :
          Len(types) < 1 /\ Create("Foo", base, kargs)
    \/ \E t \in 1..Len(types), args \in ArgSet : Construct(t, args)
    \/ \E i \in 1..Len(insts), n \in AttrNames : SetAttr(i, n)
    \/ \E i \in 1..Len(insts) : DeepCopy(i)

SpecCopy == Init /\ [][NextCopy]_vars

(***************************************************************************)
(* Vocabulary of the properties.                                           *)
(***************************************************************************)
\* Python's notion of a callable among the values a caller can pass.
IsCallable(v) == v \in Producers

TypeIds == 1..Len(types)
InstIds == 1..Len(insts)
TypeOf(i) == types[insts[i].type]

\* How many times one run of initType set attribute n.
Occurs(ev, n) == Cardinality({j \in 1..Len(ev) : ev[j] = n})

\* How many times the producer of attribute n was called for an instance.
ProducerCalls(inst, n) ==
    Cardinality({kj \in (1..Len(inst.log)) \X (1..(Len(AttrOrder) + 1)) :
                    kj[2] <= Len(inst.log[kj[1]].ev) /\ inst.log[kj[1]].ev[kj[2]] = n})

\* The custom initializer of class t is installed.
InitInstalled(t) == "__init__" \in DOMAIN types[t].ns /\ types[t].ns["__init__"] = InitVal(t)

(***************************************************************************)
(* C1.  create partitions the keyword arguments by callability.            *)
(***************************************************************************)
C1_Factory(t, n) ==
    /\ n \in DOMAIN types[t].dict_inst
    /\ n \notin DOMAIN types[t].dict_cls
    /\ n \in DOMAIN types[t].ns => types[t].ns[n] # types[t].kargs[n]
    /\ \A i \in InstIds : insts[i].type = t =>
          \A k \in 1..Len(insts[i].log) : Occurs(insts[i].log[k].ev, n) = 1

C1_Grouped(t, n) ==
    /\ n \in DOMAIN types[t].dict_cls
    /\ n \notin DOMAIN types[t].dict_inst

C1_Static(t, n) ==
    /\ C1_Grouped(t, n)
    /\ n \in DOMAIN types[t].ns
    /\ types[t].ns[n] = types[t].kargs[n]

C2_LookupAsStated ==
    /\ \A t \in TypeIds :
          types[t].base = IF types[t].given \in DOMAIN class_replacers
                          THEN class_replacers[types[t].given]
                          ELSE types[t].given
    /\ last.op = "create" => ~last.raised

(***************************************************************************)
(* C3.  A name resolves to the class of the most recent create call.       *)
(***************************************************************************)
Newest(S) == CHOOSE t \in S : \A u \in S : u <= t

\* C3 as stated: a create call raises no error and leaves its name bound to
\* the class it has just made, and every name used so far resolves to the
\* newest class made under that name.
C3_NewestAsStated ==
    /\ last.op = "create" =>
          /\ ~last.raised
          /\ last.x = Len(types)
          /\ globals[last.name] = Cls(last.x)
    /\ \A n \in ModNames :
          LET made == {t \in TypeIds : types[t].name = n}
          IN made # {} => globals[n] = Cls(Newest(made))

(***************************************************************************)
(* C4.  Every instance gets its own produced values.                       *)
(***************************************************************************)
\* Instances made by calling their class hold, for every instance-factory
\* attribute they have not reassigned, an object no other instance holds.
C4_Independent ==
    \A i \in InstIds : \A n \in DOMAIN TypeOf(i).dict_inst :
        insts[i].src = 0 =>
            /\ n \in DOMAIN insts[i].dict
            /\ insts[i].dict[n].tag = "ref"
            /\ \A j \in InstIds \ {i} : insts[i].dict[n].r \notin Held(insts[j])

\* C4 as stated: each construction calls each producer exactly once, and the
\* instances' values are independent.
C4_OncePerInstanceAsStated ==
    /\ C4_Independent
    /\ \A i \in InstIds : \A n \in DOMAIN TypeOf(i).dict_inst :
          insts[i].src = 0 => ProducerCalls(insts[i], n) = 1

\* C4 amended: each construction calls each producer once per run of the
\* initializer: once, and twice over the numeric-array replacement, whose
\* __array_finalize__ runs the initializer before the class call does.
C4_OncePerRun ==
    /\ C4_Independent
    /\ \A i \in InstIds : \A n \in DOMAIN TypeOf(i).dict_inst :
          insts[i].src = 0 =>
              ProducerCalls(insts[i], n) = IF TypeOf(i).base = "_numpy_array" THEN 2 ELSE 1

\* Two instances of one class, the produced value of one mutated in place and
\* the other's untouched.
C4_Witness ==
    \E i, j \in InstIds : \E n \in DOMAIN TypeOf(i).dict_inst :
        /\ i # j
        /\ insts[i].type = insts[j].type
        /\ insts[i].src = 0 /\ insts[j].src = 0
        /\ n \notin insts[i].own \cup insts[j].own
        /\ heap[insts[i].dict[n].r] = Mutated
        /\ heap[insts[j].dict[n].r] = <<>>

(***************************************************************************)
(* C5.  Static attributes of a class with no callable attribute.           *)
(***************************************************************************)
C5_StaticsExposed(excluded) ==
    \A t \in TypeIds :
        (\A n \in DOMAIN types[t].kargs : ~IsCallable(types[t].kargs[n])) =>
            /\ IsSubclass(types[t].base, types[t].given)
            /\ \A n \in DOMAIN types[t].kargs \ excluded :
                  /\ n \in DOMAIN types[t].ns
                  /\ types[t].ns[n] = types[t].kargs[n]
                  /\ \A i \in InstIds :
                        (insts[i].type = t /\ n \notin insts[i].own) =>
                            GetAttr(insts[i], n) = types[t].kargs[n]

\* C5 as stated: the class is a subtype of the base given, and the class and
\* every instance that has not reassigned the attribute expose each static
\* attribute with the value given to create, whatever the attribute's name.
C5_StaticsAsStated == C5_StaticsExposed({})

\* C5 amended: the same for every attribute name but "__init__", which line
\* 147 rebinds to the initializer.
C5_Statics == C5_StaticsExposed({"__init__"})

\* One instance has reassigned a static attribute, another instance of the
\* class still sees the value given to create.
C5_Witness ==
    \E i, j \in InstIds : \E n \in DOMAIN TypeOf(i).kargs \ {"__init__"} :
        /\ i # j
        /\ insts[i].type = insts[j].type
        /\ \A m \in DOMAIN TypeOf(i).kargs : ~IsCallable(TypeOf(i).kargs[m])
        /\ n \in insts[j].own
        /\ GetAttr(insts[j], n) # TypeOf(i).kargs[n]
        /\ GetAttr(insts[i], n) = TypeOf(i).kargs[n]

(***************************************************************************)
(* C6.  Deep copies of instances over a replaced base.                     *)
(***************************************************************************)
\* Two attribute values are equal: the same immutable value, or objects with
\* equal contents.
SameValue(v, w) ==
    IF v.tag = "ref" /\ w.tag = "ref" THEN heap[v.r] = heap[w.r] ELSE v = w

\* C6: the deep copy has the class, the elements and every instance attribute
\* of the original, attached ones included, with equal values; the copy and
\* the original hold no object in common, then and later.
C6_DeepCopy ==
    /\ last.op = "deepcopy" =>
          LET orig == insts[last.x]
              copy_ == insts[last.y]
          IN /\ copy_.type = orig.type
             /\ heap[copy_.buf] = heap[orig.buf]
             /\ DOMAIN orig.dict \subseteq DOMAIN copy_.dict
             /\ \A n \in DOMAIN orig.dict : SameValue(copy_.dict[n], orig.dict[n])
    /\ \A c \in InstIds :
          insts[c].src # 0 => Held(insts[c]) \cap Held(insts[insts[c].src]) = {}

\* An instance with elements and an attribute attached after construction has
\* just been deep-copied.
C6_Witness ==
    /\ last.op = "deepcopy"
    /\ insts[last.x].own # {}
    /\ heap[insts[last.x].buf] = <<1, 2>>
    /\ \E n \in insts[last.x].own :
          /\ n \notin DOMAIN TypeOf(last.x).kargs
          /\ heap[insts[last.x].dict[n].r] = Attached

(***************************************************************************)
(* C7.  The order of the steps of the installed initializer.               *)
(***************************************************************************)
\* C7: every run of the initializer first sets each instance-factory attribute
\* once and only then calls the base initializer, with the run's arguments
\* when the base defines an initializer of its own and with none otherwise.
C7_InitOrder ==
    \A i \in InstIds : \A k \in 1..Len(insts[i].log) :
        LET run == insts[i].log[k]
            n_ev == Len(run.ev)
        IN /\ n_ev = Cardinality(DOMAIN TypeOf(i).dict_inst) + 1
           /\ run.ev[n_ev] = "base.__init__"
           /\ {run.ev[j] : j \in 1..(n_ev - 1)} = DOMAIN TypeOf(i).dict_inst
           /\ run.passed = IF TypeOf(i).base = "list" THEN run.args ELSE NoArgs

\* A class with an instance-factory attribute was instantiated with an
\* argument, which its base initializer received.
C7_Witness ==
    \E i \in InstIds : \E k \in 1..Len(insts[i].log) :
        /\ TypeOf(i).dict_inst # EmptyDict
        /\ insts[i].log[k].args.given
        /\ insts[i].log[k].passed = insts[i].log[k].args
        /\ heap[insts[i].buf] = insts[i].log[k].args.seq

(***************************************************************************)
(* C8.  create leaves the registry and the other bindings alone.           *)
(***************************************************************************)
\* What the module's name class_replacers gives access to.
RegistryView == <<globals["class_replacers"], class_replacers>>

\* C8 as stated: across every create call the registry reached as the module's
\* class_replacers holds the same mappings, and no binding of the module
\* namespace changes but the one of the call's name.
C8_FrameAsStated ==
    [][last'.op = "create" =>
          /\ RegistryView' = RegistryView
          /\ \A n \in ModNames \ {last'.name} : globals'[n] = globals[n]]_vars

(***************************************************************************)
(* C9.  Two threads racing on one name.                                    *)
(***************************************************************************)
\* C9: no name of the module namespace is ever bound to a class whose
\* initializer is not installed yet, and once two calls with the same name
\* have both finished the name is bound to the class one of them made.
C9_Race ==
    /\ \A n \in ModNames : globals[n].tag = "cls" => InitInstalled(globals[n].r)
    /\ (loc[1].name = loc[2].name /\ \A th \in Threads : Finished(pc[th])) =>
          \E th \in Threads : pc[th] = "done" /\ globals[loc[th].name] = Cls(loc[th].t)

\* Both calls have returned and the class made first is the one bound.
C9_Witness ==
    /\ \A th \in Threads : pc[th] = "done"
    /\ loc[1].name = loc[2].name
    /\ loc[1].t > loc[2].t
    /\ globals[loc[1].name] = Cls(loc[2].t)

(***************************************************************************)
(* C10.  A synthesized class is never changed by a later create call.      *)
(***************************************************************************)
\* Every instance has the attributes and the base of the create call that
\* made its class.
C10_OwnAttributes(tys, ins) ==
    \A i \in 1..Len(ins) :
        LET ty == tys[ins[i].type]
        IN /\ DOMAIN ins[i].dict = {n \in DOMAIN ty.kargs : IsCallable(ty.kargs[n])}
           /\ \A n \in DOMAIN ty.kargs :
                 (~IsCallable(ty.kargs[n]) /\ n # "__init__") =>
                     (n \in DOMAIN ty.ns /\ ty.ns[n] = ty.kargs[n])
           /\ \A k \in 1..Len(ins[i].log) :
                 ins[i].log[k].passed = BaseInitArgs(ty.base, ins[i].log[k].args)

====
